---- MODULE Spec2Model ----
(***************************************************************************)
(* A model of the 2D top-down game template: the human controller          *)
(* (HumanPlayer.ts), the AI controller and its vision-cone test            *)
(* (AIPlayer.ts) and the React frame driver (Game.tsx).                    *)
(*                                                                         *)
(* Numbers.  The program computes in IEEE doubles; the model computes in   *)
(* fixed point.  A length is an integer number of 1/PosScale pixels, an    *)
(* angle an integer number of 1/TwoPi turns (TwoPi = 1256, so one unit is  *)
(* 0.0050025 rad, Math.PI is 628 and the thresholds PI/4, 3PI/4, 5PI/4 and *)
(* 7PI/4 are the integers 157, 471, 785, 1099).  The radian literals of    *)
(* the source become 0.05 -> 10, 0.1 -> 20 and 0.08 -> 16 units.           *)
(* Math.cos, Math.sin and Math.atan2 are tables in these units, and        *)
(* Math.sqrt is avoided by comparing squared distances.                    *)
(***************************************************************************)
EXTENDS Integers, Sequences, FiniteSets, TLC

(***************************************************************************)
(* Resolution of the fixed-point numbers                                   *)
(***************************************************************************)
PosScale == 10
TrigScale == 1000
AtanSteps == 256

\* Math.PI and 2 * Math.PI in angle units
Pi == 628
TwoPi == 2 * Pi

(***************************************************************************)
(* Constants of the program (pixels, degrees, angle units)                 *)
(***************************************************************************)
CanvasWidth == 800
CanvasHeight == 600
PlayerStartX == 400
PlayerStartY == 300
PlayerSpeed == 5
PlayerSize == 20
AiStartX == 200
AiStartY == 200
AiSpeed == 3
AiSize == 20
VisionConeAngle == 220
VisionDistance == 160
PlayerPulseStep == 20
AiPulseStep == 16
DefaultRotationSpeed == 10
SnapThreshold == 20

Directions == {"up", "down", "left", "right"}

\* the canvas element behind canvasRef.current, or null; context tells whether
\* canvas.getContext('2d') returns a context
NoCanvas == [present |-> FALSE, width |-> 0, height |-> 0, context |-> FALSE]
TheCanvas == [present |-> TRUE, width |-> CanvasWidth * PosScale,
              height |-> CanvasHeight * PosScale, context |-> TRUE]
NoContextCanvas == [TheCanvas EXCEPT !.context = FALSE]

(***************************************************************************)
(* Math                                                                    *)
(***************************************************************************)
Abs(n) == IF n < 0 THEN -n ELSE n
Max(a, b) == IF a >= b THEN a ELSE b
Min(a, b) == IF a <= b THEN a ELSE b
\* n / d rounded to the nearest integer (d > 0)
RoundDiv(n, d) == (2 * n + d) \div (2 * d)

(***************************************************************************)
(* Bounds of the model                                                     *)
(***************************************************************************)
\* gameLoop runs per behaviour
MaxTicks == 3
\* key events per behaviour
MaxKeyEvents == 2
\* callbacks that may run between two renders
MaxPending == 1
\* Math.random() takes the values 0/RandomSteps .. (RandomSteps-1)/RandomSteps
RandomSteps == 4

CosTab ==
  << 1000, 1000, 1000, 1000, 1000, 1000, 1000, 999, 999, 999, 999, 998, 998, 998, 998, 997, 997, 996, 996, 995,
     995, 994, 994, 993, 993, 992, 992, 991, 990, 989, 989, 988, 987, 986, 986, 985, 984, 983, 982, 981,
     980, 979, 978, 977, 976, 975, 974, 972, 971, 970, 969, 968, 966, 965, 964, 962, 961, 960, 958, 957,
     955, 954, 952, 951, 949, 948, 946, 944, 943, 941, 939, 938, 936, 934, 932, 930, 929, 927, 925, 923,
     921, 919, 917, 915, 913, 911, 909, 907, 905, 903, 900, 898, 896, 894, 891, 889, 887, 885, 882, 880,
     877, 875, 873, 870, 868, 865, 863, 860, 858, 855, 852, 850, 847, 844, 842, 839, 836, 834, 831, 828,
     825, 822, 819, 817, 814, 811, 808, 805, 802, 799, 796, 793, 790, 787, 784, 780, 777, 774, 771, 768,
     765, 761, 758, 755, 752, 748, 745, 742, 738, 735, 731, 728, 725, 721, 718, 714, 711, 707, 704, 700,
     696, 693, 689, 686, 682, 678, 675, 671, 667, 663, 660, 656, 652, 648, 644, 641, 637, 633, 629, 625,
     621, 617, 613, 609, 605, 601, 597, 593, 589, 585, 581, 577, 573, 569, 565, 561, 557, 552, 548, 544,
     540, 536, 531, 527, 523, 519, 514, 510, 506, 501, 497, 493, 488, 484, 480, 475, 471, 466, 462, 458,
     453, 449, 444, 440, 435, 431, 426, 422, 417, 413, 408, 403, 399, 394, 390, 385, 380, 376, 371, 366,
     362, 357, 352, 348, 343, 338, 334, 329, 324, 319, 315, 310, 305, 300, 296, 291, 286, 281, 276, 272,
     267, 262, 257, 252, 248, 243, 238, 233, 228, 223, 218, 213, 209, 204, 199, 194, 189, 184, 179, 174,
     169, 164, 159, 154, 150, 145, 140, 135, 130, 125, 120, 115, 110, 105, 100, 95, 90, 85, 80, 75,
     70, 65, 60, 55, 50, 45, 40, 35, 30, 25, 20, 15, 10, 5, 0, -5, -10, -15, -20, -25,
     -30, -35, -40, -45, -50, -55, -60, -65, -70, -75, -80, -85, -90, -95, -100, -105, -110, -115, -120, -125,
     -130, -135, -140, -145, -150, -154, -159, -164, -169, -174, -179, -184, -189, -194, -199, -204, -209, -213, -218, -223,
     -228, -233, -238, -243, -248, -252, -257, -262, -267, -272, -276, -281, -286, -291, -296, -300, -305, -310, -315, -319,
     -324, -329, -334, -338, -343, -348, -352, -357, -362, -366, -371, -376, -380, -385, -390, -394, -399, -403, -408, -413,
     -417, -422, -426, -431, -435, -440, -444, -449, -453, -458, -462, -466, -471, -475, -480, -484, -488, -493, -497, -501,
     -506, -510, -514, -519, -523, -527, -531, -536, -540, -544, -548, -552, -557, -561, -565, -569, -573, -577, -581, -585,
     -589, -593, -597, -601, -605, -609, -613, -617, -621, -625, -629, -633, -637, -641, -644, -648, -652, -656, -660, -663,
     -667, -671, -675, -678, -682, -686, -689, -693, -696, -700, -704, -707, -711, -714, -718, -721, -725, -728, -731, -735,
     -738, -742, -745, -748, -752, -755, -758, -761, -765, -768, -771, -774, -777, -780, -784, -787, -790, -793, -796, -799,
     -802, -805, -808, -811, -814, -817, -819, -822, -825, -828, -831, -834, -836, -839, -842, -844, -847, -850, -852, -855,
     -858, -860, -863, -865, -868, -870, -873, -875, -877, -880, -882, -885, -887, -889, -891, -894, -896, -898, -900, -903,
     -905, -907, -909, -911, -913, -915, -917, -919, -921, -923, -925, -927, -929, -930, -932, -934, -936, -938, -939, -941,
     -943, -944, -946, -948, -949, -951, -952, -954, -955, -957, -958, -960, -961, -962, -964, -965, -966, -968, -969, -970,
     -971, -972, -974, -975, -976, -977, -978, -979, -980, -981, -982, -983, -984, -985, -986, -986, -987, -988, -989, -989,
     -990, -991, -992, -992, -993, -993, -994, -994, -995, -995, -996, -996, -997, -997, -998, -998, -998, -998, -999, -999,
     -999, -999, -1000, -1000, -1000, -1000, -1000, -1000, -1000, -1000, -1000, -1000, -1000, -1000, -1000, -999, -999, -999, -999, -998,
     -998, -998, -998, -997, -997, -996, -996, -995, -995, -994, -994, -993, -993, -992, -992, -991, -990, -989, -989, -988,
     -987, -986, -986, -985, -984, -983, -982, -981, -980, -979, -978, -977, -976, -975, -974, -972, -971, -970, -969, -968,
     -966, -965, -964, -962, -961, -960, -958, -957, -955, -954, -952, -951, -949, -948, -946, -944, -943, -941, -939, -938,
     -936, -934, -932, -930, -929, -927, -925, -923, -921, -919, -917, -915, -913, -911, -909, -907, -905, -903, -900, -898,
     -896, -894, -891, -889, -887, -885, -882, -880, -877, -875, -873, -870, -868, -865, -863, -860, -858, -855, -852, -850,
     -847, -844, -842, -839, -836, -834, -831, -828, -825, -822, -819, -817, -814, -811, -808, -805, -802, -799, -796, -793,
     -790, -787, -784, -780, -777, -774, -771, -768, -765, -761, -758, -755, -752, -748, -745, -742, -738, -735, -731, -728,
     -725, -721, -718, -714, -711, -707, -704, -700, -696, -693, -689, -686, -682, -678, -675, -671, -667, -663, -660, -656,
     -652, -648, -644, -641, -637, -633, -629, -625, -621, -617, -613, -609, -605, -601, -597, -593, -589, -585, -581, -577,
     -573, -569, -565, -561, -557, -552, -548, -544, -540, -536, -531, -527, -523, -519, -514, -510, -506, -501, -497, -493,
     -488, -484, -480, -475, -471, -466, -462, -458, -453, -449, -444, -440, -435, -431, -426, -422, -417, -413, -408, -403,
     -399, -394, -390, -385, -380, -376, -371, -366, -362, -357, -352, -348, -343, -338, -334, -329, -324, -319, -315, -310,
     -305, -300, -296, -291, -286, -281, -276, -272, -267, -262, -257, -252, -248, -243, -238, -233, -228, -223, -218, -213,
     -209, -204, -199, -194, -189, -184, -179, -174, -169, -164, -159, -154, -150, -145, -140, -135, -130, -125, -120, -115,
     -110, -105, -100, -95, -90, -85, -80, -75, -70, -65, -60, -55, -50, -45, -40, -35, -30, -25, -20, -15,
     -10, -5, 0, 5, 10, 15, 20, 25, 30, 35, 40, 45, 50, 55, 60, 65, 70, 75, 80, 85,
     90, 95, 100, 105, 110, 115, 120, 125, 130, 135, 140, 145, 150, 154, 159, 164, 169, 174, 179, 184,
     189, 194, 199, 204, 209, 213, 218, 223, 228, 233, 238, 243, 248, 252, 257, 262, 267, 272, 276, 281,
     286, 291, 296, 300, 305, 310, 315, 319, 324, 329, 334, 338, 343, 348, 352, 357, 362, 366, 371, 376,
     380, 385, 390, 394, 399, 403, 408, 413, 417, 422, 426, 431, 435, 440, 444, 449, 453, 458, 462, 466,
     471, 475, 480, 484, 488, 493, 497, 501, 506, 510, 514, 519, 523, 527, 531, 536, 540, 544, 548, 552,
     557, 561, 565, 569, 573, 577, 581, 585, 589, 593, 597, 601, 605, 609, 613, 617, 621, 625, 629, 633,
     637, 641, 644, 648, 652, 656, 660, 663, 667, 671, 675, 678, 682, 686, 689, 693, 696, 700, 704, 707,
     711, 714, 718, 721, 725, 728, 731, 735, 738, 742, 745, 748, 752, 755, 758, 761, 765, 768, 771, 774,
     777, 780, 784, 787, 790, 793, 796, 799, 802, 805, 808, 811, 814, 817, 819, 822, 825, 828, 831, 834,
     836, 839, 842, 844, 847, 850, 852, 855, 858, 860, 863, 865, 868, 870, 873, 875, 877, 880, 882, 885,
     887, 889, 891, 894, 896, 898, 900, 903, 905, 907, 909, 911, 913, 915, 917, 919, 921, 923, 925, 927,
     929, 930, 932, 934, 936, 938, 939, 941, 943, 944, 946, 948, 949, 951, 952, 954, 955, 957, 958, 960,
     961, 962, 964, 965, 966, 968, 969, 970, 971, 972, 974, 975, 976, 977, 978, 979, 980, 981, 982, 983,
     984, 985, 986, 986, 987, 988, 989, 989, 990, 991, 992, 992, 993, 993, 994, 994, 995, 995, 996, 996,
     997, 997, 998, 998, 998, 998, 999, 999, 999, 999, 1000, 1000, 1000, 1000, 1000, 1000 >>

AtanTab ==
  << 0, 1, 2, 2, 3, 4, 5, 5, 6, 7, 8, 9, 9, 10, 11, 12, 12, 13, 14, 15, 16, 16, 17, 18,
     19, 19, 20, 21, 22, 23, 23, 24, 25, 26, 26, 27, 28, 29, 29, 30, 31, 32, 33, 33, 34, 35, 36, 36,
     37, 38, 39, 39, 40, 41, 42, 42, 43, 44, 45, 45, 46, 47, 47, 48, 49, 50, 50, 51, 52, 53, 53, 54,
     55, 56, 56, 57, 58, 58, 59, 60, 61, 61, 62, 63, 63, 64, 65, 65, 66, 67, 68, 68, 69, 70, 70, 71,
     72, 72, 73, 74, 74, 75, 76, 76, 77, 78, 78, 79, 80, 80, 81, 82, 82, 83, 84, 84, 85, 86, 86, 87,
     88, 88, 89, 90, 90, 91, 91, 92, 93, 93, 94, 95, 95, 96, 96, 97, 98, 98, 99, 99, 100, 101, 101, 102,
     102, 103, 104, 104, 105, 105, 106, 107, 107, 108, 108, 109, 109, 110, 111, 111, 112, 112, 113, 113, 114, 114, 115, 116,
     116, 117, 117, 118, 118, 119, 119, 120, 120, 121, 121, 122, 123, 123, 124, 124, 125, 125, 126, 126, 127, 127, 128, 128,
     129, 129, 130, 130, 131, 131, 132, 132, 133, 133, 134, 134, 134, 135, 135, 136, 136, 137, 137, 138, 138, 139, 139, 140,
     140, 141, 141, 141, 142, 142, 143, 143, 144, 144, 145, 145, 145, 146, 146, 147, 147, 148, 148, 148, 149, 149, 150, 150,
     151, 151, 151, 152, 152, 153, 153, 153, 154, 154, 155, 155, 155, 156, 156, 157, 157 >>

\* Math.cos(a) * TrigScale, a in angle units (any integer; the table is one turn)
Cos(a) == CosTab[(a % TwoPi) + 1]
\* Math.sin(a) * TrigScale: sin a = cos(a - PI/2)
Sin(a) == CosTab[((a - Pi \div 2) % TwoPi) + 1]

\* Math.atan2(dy, dx) in angle units, in (-Pi, Pi]; atan2(0, 0) = 0
Atan2(dy, dx) ==
  LET ax == Abs(dx)
      ay == Abs(dy)
      base == IF ax = 0 /\ ay = 0 THEN 0
              ELSE IF ax >= ay THEN AtanTab[RoundDiv(AtanSteps * ay, ax) + 1]
              ELSE Pi \div 2 - AtanTab[RoundDiv(AtanSteps * ax, ay) + 1]
      full == IF dx >= 0 THEN base ELSE Pi - base
  IN  IF dy < 0 THEN -full ELSE full

\* dx * dx + dy * dy: the square of Math.sqrt(dx * dx + dy * dy)
Dist2(dx, dy) == dx * dx + dy * dy

(***************************************************************************)
(* HumanPlayer.ts                                                          *)
(***************************************************************************)
\* mutant of Clamp: the upper limit is forgotten
ClampLowerOnly(v, size, limit) == Max(size, v)

\* Math.max(size, Math.min(limit - size, v))
Clamp(v, size, limit) == Max(size, Min(limit - size, v))

\* mutant of PlayerKeyDirection: the vertical keys are evaluated last
PlayerKeyDirectionVerticalLast(keysPressed) ==
  IF "w" \in keysPressed THEN "up"
  ELSE IF "s" \in keysPressed THEN "down"
  ELSE IF "a" \in keysPressed THEN "left"
  ELSE IF "d" \in keysPressed THEN "right"
  ELSE "none"

\* the value of newDirection after the two if/else-if chains
PlayerKeyDirection(keysPressed) ==
  IF "a" \in keysPressed THEN "left"
  ELSE IF "d" \in keysPressed THEN "right"
  ELSE IF "w" \in keysPressed THEN "up"
  ELSE IF "s" \in keysPressed THEN "down"
  ELSE "none"

\* mutant of PlayerDirection: the direction is reset when no key is held
PlayerDirectionReset(player, keysPressed) == PlayerKeyDirection(keysPressed)

\* newDirection === 'none' ? player.direction : newDirection
PlayerDirection(player, keysPressed) ==
  IF PlayerKeyDirection(keysPressed) = "none" THEN player.direction
  ELSE PlayerKeyDirection(keysPressed)

\* mutant of PlayerMoveY: 'w' and 's' are swapped
PlayerMoveYSwapped(player, keysPressed) ==
  IF "w" \in keysPressed THEN player.y + player.speed
  ELSE IF "s" \in keysPressed THEN player.y - player.speed
  ELSE player.y

\* newY before the clamp: 'w' wins over 's'
PlayerMoveY(player, keysPressed) ==
  IF "w" \in keysPressed THEN player.y - player.speed
  ELSE IF "s" \in keysPressed THEN player.y + player.speed
  ELSE player.y

\* newX before the clamp: 'a' wins over 'd'
PlayerMoveX(player, keysPressed) ==
  IF "a" \in keysPressed THEN player.x - player.speed
  ELSE IF "d" \in keysPressed THEN player.x + player.speed
  ELSE player.x

\* (player.pulse + 0.1) % (Math.PI * 2)
PlayerPulse(player) == (player.pulse + PlayerPulseStep) % TwoPi

updatePlayer(player, keysPressed, canvas) ==
  LET newX == IF canvas.present
              THEN Clamp(PlayerMoveX(player, keysPressed), player.size, canvas.width)
              ELSE PlayerMoveX(player, keysPressed)
      newY == IF canvas.present
              THEN Clamp(PlayerMoveY(player, keysPressed), player.size, canvas.height)
              ELSE PlayerMoveY(player, keysPressed)
  IN  [player EXCEPT !.x = newX,
                     !.y = newY,
                     !.direction = PlayerDirection(player, keysPressed),
                     !.pulse = PlayerPulse(player)]

(***************************************************************************)
(* AIPlayer.ts                                                             *)
(***************************************************************************)
\* (aiVision.visionConeAngle * Math.PI) / 180 / 2, rounded down: the largest
\* whole number of angle units that is <= half the cone
HalfCone(aiVision) == (aiVision.visionConeAngle * Pi) \div 360

\* distance > aiVision.visionDistance
TooFar(aiPlayer, player, aiVision) ==
  Dist2(player.x - aiPlayer.x, player.y - aiPlayer.y)
    > aiVision.visionDistance * aiVision.visionDistance

\* Math.abs(angleToPlayer - rotation), replaced by 2 PI minus itself when > PI
VisionAngleDiff(angleToPlayer, rotation) ==
  LET angleDiff == Abs(angleToPlayer - rotation)
  IN  IF angleDiff > Pi THEN TwoPi - angleDiff ELSE angleDiff

\* mutant of checkAiVision: a player that was seen stays seen
checkAiVisionSticky(aiPlayer, player, aiVision) ==
  [aiVision EXCEPT !.canSeePlayer =
     \/ aiVision.canSeePlayer
     \/ /\ ~TooFar(aiPlayer, player, aiVision)
        /\ VisionAngleDiff(Atan2(player.y - aiPlayer.y, player.x - aiPlayer.x),
                           aiPlayer.rotation) <= HalfCone(aiVision)]

checkAiVision(aiPlayer, player, aiVision) ==
  LET dx == player.x - aiPlayer.x
      dy == player.y - aiPlayer.y
      angleToPlayer == Atan2(dy, dx)
      isInCone == VisionAngleDiff(angleToPlayer, aiPlayer.rotation) <= HalfCone(aiVision)
  IN  IF TooFar(aiPlayer, player, aiVision)
      THEN [aiVision EXCEPT !.canSeePlayer = FALSE]
      ELSE [aiVision EXCEPT !.canSeePlayer = isInCone]

\* the four-way if/else chain that labels a rotation with a direction
DirectionOfRotation(r) ==
  IF r >= (7 * Pi) \div 4 \/ r < Pi \div 4 THEN "right"
  ELSE IF r >= Pi \div 4 /\ r < (3 * Pi) \div 4 THEN "down"
  ELSE IF r >= (3 * Pi) \div 4 /\ r < (5 * Pi) \div 4 THEN "left"
  ELSE "up"

\* distanceToPlayer < aiPlayer.size + player.size
InContactRange(aiPlayer, player) ==
  Dist2(player.x - aiPlayer.x, player.y - aiPlayer.y)
    < (aiPlayer.size + player.size) * (aiPlayer.size + player.size)

\* mutant of RotationDiff: the difference is not brought back into +-PI
RotationDiffNoWrap(angleToPlayer, rotation) == angleToPlayer - rotation

\* angleToPlayer - newRotation, brought back by one turn when beyond +-PI
RotationDiff(angleToPlayer, rotation) ==
  LET d0 == angleToPlayer - rotation
      d1 == IF d0 > Pi THEN d0 - TwoPi ELSE d0
  IN  IF d1 < -Pi THEN d1 + TwoPi ELSE d1

\* the gradual turn towards the player, then the normalisation to 0..2PI
TurnTowards(rotation, angleToPlayer, rotationSpeed) ==
  LET rotationDiff == RotationDiff(angleToPlayer, rotation)
      turned == IF Abs(rotationDiff) > SnapThreshold
                THEN IF rotationDiff > 0 THEN rotation + rotationSpeed
                     ELSE rotation - rotationSpeed
                ELSE angleToPlayer
      up == IF turned < 0 THEN turned + TwoPi ELSE turned
  IN  IF up >= TwoPi THEN up - TwoPi ELSE up

\* mutant of AdvanceX: the horizontal advance uses the sine
AdvanceXBySin(x, rotation, speed) == x + RoundDiv(Sin(rotation) * speed, TrigScale)

\* newX += Math.cos(newRotation) * aiPlayer.speed
AdvanceX(x, rotation, speed) == x + RoundDiv(Cos(rotation) * speed, TrigScale)
\* mutant of AdvanceY: the sign of the vertical advance is wrong
AdvanceYFlipped(y, rotation, speed) == y - RoundDiv(Sin(rotation) * speed, TrigScale)

\* newY += Math.sin(newRotation) * aiPlayer.speed
AdvanceY(y, rotation, speed) == y + RoundDiv(Sin(rotation) * speed, TrigScale)

\* mutant of WouldHitWall: only the horizontal bounds are tested
WouldHitWallXOnly(newX, newY, size, canvas) ==
  newX < size \/ newX > canvas.width - size

\* wouldHitWall
WouldHitWall(newX, newY, size, canvas) ==
  \/ newX < size
  \/ newX > canvas.width - size
  \/ newY < size
  \/ newY > canvas.height - size

\* newRotation += Math.PI; if (newRotation >= 2 PI) newRotation -= 2 PI
Reflect(rotation) ==
  IF rotation + Pi >= TwoPi THEN rotation + Pi - TwoPi ELSE rotation + Pi

\* mutant of Reorient: the random angle is added without the quarter turn
ReorientNoQuarter(rotation, rnd) ==
  LET r == rotation + (rnd * Pi) \div RandomSteps
  IN  IF r >= TwoPi THEN r - TwoPi ELSE r

\* newRotation += Math.PI / 2 + Math.random() * Math.PI, then the same fold;
\* Math.random() is rnd / RandomSteps with rnd in 0 .. RandomSteps - 1
Reorient(rotation, rnd) ==
  LET r == rotation + Pi \div 2 + (rnd * Pi) \div RandomSteps
  IN  IF r >= TwoPi THEN r - TwoPi ELSE r

\* collision.ts is not among the sources.  From the design of the collision
\* resolver: an overlap of the mover at the proposed position with the other
\* entity (circle against circle) vetoes the move and returns the position
\* before the move; without an overlap the proposed position is returned.
\* Game.tsx passes no boxes.
calculateNonCollidingPosition(newX, newY, aiPlayer, player) ==
  IF Dist2(player.x - newX, player.y - newY)
       < (aiPlayer.size + player.size) * (aiPlayer.size + player.size)
  THEN [x |-> aiPlayer.x, y |-> aiPlayer.y]
  ELSE [x |-> newX, y |-> newY]

\* mutant of AiPulse: the pulse is not wrapped
AiPulseNoWrap(aiPlayer) == aiPlayer.pulse + AiPulseStep

\* (aiPlayer.pulse + 0.08) % (Math.PI * 2)
AiPulse(aiPlayer) == (aiPlayer.pulse + AiPulseStep) % TwoPi

\* The early return of the contact branch: the position is not touched.
AiTrack(aiPlayer, player) ==
  LET newRotation == Atan2(player.y - aiPlayer.y, player.x - aiPlayer.x)
  IN  [aiPlayer EXCEPT !.direction = DirectionOfRotation(newRotation),
                       !.rotation = newRotation,
                       !.pulse = AiPulse(aiPlayer)]

\* updateAiPlayer from the turn to the wall logic: the turn towards the player
\* (when it is seen), the advance to the proposed position, the reflection when
\* that position is out of bounds, and the clamp.
AiWalled(aiPlayer, player, canSee, canvas) ==
  LET angleToPlayer == Atan2(player.y - aiPlayer.y, player.x - aiPlayer.x)
      rot1 == IF canSee
              THEN TurnTowards(aiPlayer.rotation, angleToPlayer, DefaultRotationSpeed)
              ELSE aiPlayer.rotation
      dir1 == IF canSee THEN DirectionOfRotation(rot1) ELSE aiPlayer.direction
      x1 == AdvanceX(aiPlayer.x, rot1, aiPlayer.speed)
      y1 == AdvanceY(aiPlayer.y, rot1, aiPlayer.speed)
      hit == canvas.present /\ WouldHitWall(x1, y1, aiPlayer.size, canvas)
  IN  [turned |-> rot1,
       proposedX |-> x1,
       proposedY |-> y1,
       wouldHitWall |-> hit,
       rotation |-> IF hit THEN Reflect(rot1) ELSE rot1,
       direction |-> IF hit THEN DirectionOfRotation(Reflect(rot1)) ELSE dir1,
       x |-> IF canvas.present THEN Clamp(x1, aiPlayer.size, canvas.width) ELSE x1,
       y |-> IF canvas.present THEN Clamp(y1, aiPlayer.size, canvas.height) ELSE y1]

\* updateAiPlayer after the wall logic, given the values w it has there: the
\* collision resolver, the new facing when the resolver moved the AI off the
\* position it was given, and the entity returned.
AiResolve(w, aiPlayer, player, rnd) ==
  LET final == calculateNonCollidingPosition(w.x, w.y, aiPlayer, player)
      collided == final.x # w.x \/ final.y # w.y
      rot3 == IF collided THEN Reorient(w.rotation, rnd) ELSE w.rotation
      dir3 == IF collided THEN DirectionOfRotation(rot3) ELSE w.direction
  IN  [aiPlayer EXCEPT !.x = final.x,
                       !.y = final.y,
                       !.direction = dir3,
                       !.rotation = rot3,
                       !.pulse = AiPulse(aiPlayer)]

\* The pursuit / patrol branch of updateAiPlayer: turn, advance and wall logic,
\* then the resolver and the return.
AiMove(aiPlayer, player, canSee, canvas, rnd) ==
  AiResolve(AiWalled(aiPlayer, player, canSee, canvas), aiPlayer, player, rnd)

\* mutant of updateAiPlayer: the contact branch does not return early
updateAiPlayerNoEarlyReturn(aiPlayer, player, aiVision, canvas, rnd) ==
  LET updatedAiVision == checkAiVision(aiPlayer, player, aiVision)
  IN  [updatedAiPlayer |->
         AiMove(aiPlayer, player, updatedAiVision.canSeePlayer, canvas, rnd),
       updatedAiVision |-> updatedAiVision]

updateAiPlayer(aiPlayer, player, aiVision, canvas, rnd) ==
  LET updatedAiVision == checkAiVision(aiPlayer, player, aiVision)
  IN  [updatedAiPlayer |->
         IF updatedAiVision.canSeePlayer /\ InContactRange(aiPlayer, player)
         THEN AiTrack(aiPlayer, player)
         ELSE AiMove(aiPlayer, player, updatedAiVision.canSeePlayer, canvas, rnd),
       updatedAiVision |-> updatedAiVision]

(***************************************************************************)
(* Game.tsx: the component's state and its callbacks                       *)
(*                                                                         *)
(* player, aiPlayer, aiVision and keysPressed are the useState values of   *)
(* the last render.  Every callback (gameLoop, the interval callback, the  *)
(* key handlers) is a closure of that render, so these are also the values *)
(* the callbacks read.  A setState call only queues an update (React       *)
(* batches the updates of a callback); Render applies the queued updates   *)
(* in order and re-runs the effects whose dependencies changed.            *)
(***************************************************************************)
VARIABLES
  player,       \* useState: the human entity
  aiPlayer,     \* useState: the AI entity
  aiVision,     \* useState: the vision state
  keysPressed,  \* useState: the set of keys whose entry is true
  canvas,       \* canvasRef.current
  batch,        \* how many state updates React holds at most before it renders
  qPlayer,      \* queued setPlayer updaters, oldest first
  qAi,          \* queued setAiPlayer updates, oldest first
  qVision,      \* queued setAiVision values, oldest first
  qKeys,        \* queued setKeysPressed updaters, oldest first
  frames,       \* number of requested animation frames not yet run or cancelled
  drawn,        \* what the last renderGame call put on the canvas
  ticks,        \* number of gameLoop runs so far
  keyEvents,    \* number of key events delivered so far
  lastAi,       \* the arguments and the result of the last updateAiPlayer call
  lastHuman,    \* the arguments and the result of the last updatePlayer call
  lastPick,     \* the direction the patrol timer picked last
  order,        \* the calls of the last tick, in the order they ran
  listeners,    \* the window events that have a handler registered
  interval,     \* whether the setInterval of the patrol timer is active
  mounted       \* whether the component is mounted

vars == << player, aiPlayer, aiVision, keysPressed, canvas, batch, qPlayer, qAi,
           qVision, qKeys, frames, drawn, ticks, keyEvents, lastAi, lastHuman, lastPick,
           order, listeners, interval, mounted >>

\* the variables only mounting and unmounting change
lifecycle == << listeners, interval, mounted >>

\* e.key of the key events the model delivers, and e.key.toLowerCase()
EventKeys == {"w", "d", "W"}
ToLowerCase(k) == IF k = "W" THEN "w" ELSE k

InitialPlayer ==
  [x |-> PlayerStartX * PosScale, y |-> PlayerStartY * PosScale, direction |-> "none",
   speed |-> PlayerSpeed * PosScale, size |-> PlayerSize * PosScale, pulse |-> 0]

\* rotation is absent from the initial object; every read is "rotation || 0"
InitialAiPlayer ==
  [x |-> AiStartX * PosScale, y |-> AiStartY * PosScale, direction |-> "none",
   speed |-> AiSpeed * PosScale, size |-> AiSize * PosScale, pulse |-> Pi,
   rotation |-> 0]

InitialAiVision ==
  [canSeePlayer |-> FALSE, visionConeAngle |-> VisionConeAngle,
   visionDistance |-> VisionDistance * PosScale]

\* the record of an updateAiPlayer call: its arguments, its result, the values
\* it had after its wall logic, and the result of the same call (same draw of
\* Math.random()) given the other value of canSeePlayer
AiCall(aiPlayer_, player_, aiVision_, canvas_, rnd) ==
  LET r == updateAiPlayer(aiPlayer_, player_, aiVision_, canvas_, rnd)
  IN  [valid |-> TRUE, aiPlayer |-> aiPlayer_, player |-> player_,
       aiVision |-> aiVision_, updatedAiPlayer |-> r.updatedAiPlayer,
       updatedAiVision |-> r.updatedAiVision,
       walled |-> AiWalled(aiPlayer_, player_, r.updatedAiVision.canSeePlayer, canvas_),
       flipped |-> updateAiPlayer(aiPlayer_, player_,
                                  [aiVision_ EXCEPT !.canSeePlayer = ~@], canvas_, rnd)]

NoAiCall ==
  [AiCall(InitialAiPlayer, InitialPlayer, InitialAiVision, TheCanvas, 0)
     EXCEPT !.valid = FALSE, !.updatedAiPlayer = InitialAiPlayer]

NoHumanCall ==
  [valid |-> FALSE, player |-> InitialPlayer, keysPressed |-> {},
   updated |-> InitialPlayer, aiTarget |-> InitialPlayer]

\* followed: the last tick ran on an AI that carried the picked direction
NoPick == [valid |-> FALSE, direction |-> "none", followed |-> FALSE]

NothingDrawn ==
  [valid |-> FALSE, player |-> InitialPlayer, aiPlayer |-> InitialAiPlayer,
   aiVision |-> InitialAiVision]

\* the queues, the registrations and the history after the first render and
\* its effects
InitEffects ==
  /\ qPlayer = << >>
  /\ qAi = << >>
  /\ qVision = << >>
  /\ qKeys = << >>
  /\ frames = 1
  /\ drawn = NothingDrawn
  /\ ticks = 0
  /\ keyEvents = 0
  /\ lastAi = NoAiCall
  /\ lastHuman = NoHumanCall
  /\ lastPick = NoPick
  /\ order = << >>
  /\ listeners = {"keydown", "keyup"}
  /\ interval = TRUE
  /\ mounted = TRUE

\* the parts of the state that do not depend on where play starts
InitRest ==
  /\ canvas = TheCanvas
  /\ batch = MaxPending
  /\ InitEffects

\* the component after its first render and its effects
Init ==
  /\ player = InitialPlayer
  /\ aiPlayer = InitialAiPlayer
  /\ aiVision = InitialAiVision
  /\ keysPressed = {}
  /\ InitRest

Pending == Len(qAi) + Len(qKeys)

\* handleKeyDown: setKeysPressed(prev => ({ ...prev, [key]: true }))
handleKeyDown(k) ==
  /\ "keydown" \in listeners
  /\ Pending < batch
  /\ keyEvents < MaxKeyEvents
  /\ keyEvents' = keyEvents + 1
  /\ qKeys' = Append(qKeys, [key |-> ToLowerCase(k), down |-> TRUE])
  /\ UNCHANGED << player, aiPlayer, aiVision, keysPressed, canvas, batch,
                  qPlayer, qAi,
                  qVision, frames, drawn, ticks, lastAi, lastHuman, lastPick, order,
                  lifecycle >>

\* handleKeyUp: setKeysPressed(prev => ({ ...prev, [key]: false }))
handleKeyUp(k) ==
  /\ "keyup" \in listeners
  /\ Pending < batch
  /\ keyEvents < MaxKeyEvents
  /\ keyEvents' = keyEvents + 1
  /\ qKeys' = Append(qKeys, [key |-> ToLowerCase(k), down |-> FALSE])
  /\ UNCHANGED << player, aiPlayer, aiVision, keysPressed, canvas, batch,
                  qPlayer, qAi,
                  qVision, frames, drawn, ticks, lastAi, lastHuman, lastPick, order,
                  lifecycle >>

\* the setInterval callback; chance is Math.random() < 0.1 and d the direction drawn
aiMovementInterval(chance, d) ==
  /\ interval
  /\ Pending < batch
  /\ IF ~aiVision.canSeePlayer /\ chance
     THEN /\ qAi' = Append(qAi, [set |-> FALSE, aiPlayer |-> aiPlayer, direction |-> d])
          /\ lastPick' = [valid |-> TRUE, direction |-> d, followed |-> FALSE]
     ELSE UNCHANGED << qAi, lastPick >>
  /\ UNCHANGED << player, aiPlayer, aiVision, keysPressed, canvas, batch,
                  qPlayer, qVision,
                  qKeys, frames, drawn, ticks, keyEvents, lastAi, lastHuman, order,
                  lifecycle >>

\* renderGame: nothing is drawn without a canvas or without a 2D context
renderGame ==
  IF canvas.present /\ canvas.context
  THEN [valid |-> TRUE, player |-> player, aiPlayer |-> aiPlayer, aiVision |-> aiVision]
  ELSE drawn

\* requestAnimationFrame(gameLoop) and cancelAnimationFrame(animationFrameId)
\* on the number of requested frames; cancelling a frame that has already run
\* does nothing
requestAnimationFrame(f) == f + 1
\* mutant of cancelAnimationFrame: the requested frame is not cancelled
cancelNothing(f) == f

cancelAnimationFrame(f) == IF f > 0 THEN f - 1 ELSE f

\* one run of the requestAnimationFrame callback; rnd is the draw of Math.random()
gameLoop(rnd) ==
  LET r == updateAiPlayer(aiPlayer, player, aiVision, canvas, rnd)
  IN  /\ frames > 0
      /\ ticks < MaxTicks
      /\ Pending < batch
      /\ qPlayer' = Append(qPlayer, [keysPressed |-> keysPressed, aiTarget |-> player])
      /\ qAi' = Append(qAi, [set |-> TRUE, aiPlayer |-> r.updatedAiPlayer,
                             direction |-> r.updatedAiPlayer.direction])
      /\ qVision' = Append(qVision, r.updatedAiVision)
      /\ drawn' = renderGame
      /\ frames' = requestAnimationFrame(frames - 1)
      /\ ticks' = ticks + 1
      /\ order' = << "setPlayer", "updateAiPlayer", "renderGame", "requestAnimationFrame" >>
      /\ lastAi' = AiCall(aiPlayer, player, aiVision, canvas, rnd)
      /\ lastPick' = [lastPick EXCEPT !.followed =
                        lastPick.valid /\ aiPlayer.direction = lastPick.direction]
      /\ UNCHANGED << player, aiPlayer, aiVision, keysPressed, canvas, batch,
                  qKeys, keyEvents,
                      lastHuman, lifecycle >>

(***************************************************************************)
(* React: applying the queued updates                                      *)
(***************************************************************************)
RECURSIVE ApplyPlayer(_, _, _)
ApplyPlayer(prev, q, cv) ==
  IF q = << >> THEN prev
  ELSE ApplyPlayer(updatePlayer(prev, Head(q).keysPressed, cv), Tail(q), cv)

RECURSIVE ApplyAi(_, _)
ApplyAi(prev, q) ==
  IF q = << >> THEN prev
  ELSE ApplyAi(IF Head(q).set THEN Head(q).aiPlayer
               ELSE [prev EXCEPT !.direction = Head(q).direction], Tail(q))

RECURSIVE ApplyKeys(_, _)
ApplyKeys(prev, q) ==
  IF q = << >> THEN prev
  ELSE ApplyKeys(IF Head(q).down THEN prev \cup {Head(q).key}
                 ELSE prev \ {Head(q).key}, Tail(q))

ApplyVision(prev, q) == IF q = << >> THEN prev ELSE q[Len(q)]

\* the record of the last queued updatePlayer call, as React runs it
LastHumanCall(prev, q, cv) ==
  LET before == ApplyPlayer(prev, SubSeq(q, 1, Len(q) - 1), cv)
      u == q[Len(q)]
  IN  [valid |-> TRUE, player |-> before, keysPressed |-> u.keysPressed,
       updated |-> updatePlayer(before, u.keysPressed, cv), aiTarget |-> u.aiTarget]

\* A render of the component with the queued updates, followed by its effects:
\* the game-loop effect depends on all four states, so its cleanup cancels the
\* requested frame and the new effect requests one.
Render ==
  /\ mounted
  /\ Len(qPlayer) + Len(qAi) + Len(qVision) + Len(qKeys) > 0
  /\ player' = ApplyPlayer(player, qPlayer, canvas)
  /\ aiPlayer' = ApplyAi(aiPlayer, qAi)
  /\ aiVision' = ApplyVision(aiVision, qVision)
  /\ keysPressed' = ApplyKeys(keysPressed, qKeys)
  /\ qPlayer' = << >>
  /\ qAi' = << >>
  /\ qVision' = << >>
  /\ qKeys' = << >>
  /\ frames' = requestAnimationFrame(cancelAnimationFrame(frames))
  /\ lastHuman' = IF qPlayer = << >> THEN lastHuman
                  ELSE LastHumanCall(player, qPlayer, canvas)
  /\ order' = IF qPlayer = << >> THEN order ELSE Append(order, "updatePlayer")
  /\ UNCHANGED << canvas, batch, drawn, ticks, keyEvents, lastAi, lastPick, lifecycle >>

\* Unmounting the component runs the cleanups of its three effects:
\* removeEventListener for both key events, clearInterval, and
\* cancelAnimationFrame of the frame the game-loop effect requested last.
\* React applies no state update to an unmounted component.
Unmount ==
  /\ mounted
  /\ mounted' = FALSE
  /\ listeners' = (listeners \ {"keydown"}) \ {"keyup"}
  /\ interval' = FALSE
  /\ frames' = cancelAnimationFrame(frames)
  /\ UNCHANGED << player, aiPlayer, aiVision, keysPressed, canvas, batch,
                  qPlayer, qAi,
                  qVision, qKeys, drawn, ticks, keyEvents, lastAi, lastHuman, lastPick,
                  order >>

\* a key event of type e on the window while no handler is registered for it
ignoredKeyEvent(e, k) ==
  /\ e \notin listeners
  /\ keyEvents < MaxKeyEvents
  /\ keyEvents' = keyEvents + 1
  /\ UNCHANGED << player, aiPlayer, aiVision, keysPressed, canvas, batch,
                  qPlayer, qAi,
                  qVision, qKeys, frames, drawn, ticks, lastAi, lastHuman, lastPick,
                  order, lifecycle >>

Next ==
  \/ \E k \in EventKeys : handleKeyDown(k)
  \/ \E k \in EventKeys : handleKeyUp(k)
  \/ \E chance \in BOOLEAN, d \in Directions : aiMovementInterval(chance, d)
  \/ \E rnd \in 0 .. RandomSteps - 1 : gameLoop(rnd)
  \/ Render

Spec == Init /\ [][Next]_vars

\* the program with its teardown
NextTeardown ==
  \/ Next
  \/ Unmount
  \/ \E e \in {"keydown", "keyup"}, k \in EventKeys : ignoredKeyEvent(e, k)

SpecTeardown == Init /\ [][NextTeardown]_vars

\* the program when the renderer has no sink: canvasRef.current is null, or the
\* canvas gives no 2D context
InitNoSink ==
  /\ player = InitialPlayer
  /\ aiPlayer = InitialAiPlayer
  /\ aiVision = InitialAiVision
  /\ keysPressed = {}
  /\ canvas \in {NoCanvas, NoContextCanvas}
  /\ batch = MaxPending
  /\ InitEffects

SpecNoSink == InitNoSink /\ [][Next]_vars

(***************************************************************************)
(* Play from the middle of a game.  The steps of the controllers are pure  *)
(* functions of the entities, the held keys and the vision state; InitStep *)
(* draws these from states of a game in progress (entities inside the      *)
(* bounds, the human on its 5-pixel grid, pulses and rotations in the      *)
(* ranges the steps produce) and NextStep runs the frame driver on them    *)
(* with the keys held as drawn.                                            *)
(***************************************************************************)
StepAi(x, y, rotation, direction, pulse) ==
  [InitialAiPlayer EXCEPT !.x = x, !.y = y, !.rotation = rotation,
                          !.direction = direction, !.pulse = pulse]

StepHuman(x, y, direction, pulse) ==
  [InitialPlayer EXCEPT !.x = x * PosScale, !.y = y * PosScale,
                        !.direction = direction, !.pulse = pulse]

StepAiPlayers ==
  { InitialAiPlayer,
    StepAi(4040, 2000, 0, "none", 459),      \* on the first patrol, never turned
    StepAi(4000, 215, 942, "up", 100),       \* heading up into the top wall
    StepAi(2000, 2000, 1200, "right", 1250), \* facing right and slightly up
    StepAi(2000, 2000, -300, "right", 500),  \* facing set by the tracking branch
    StepAi(4817, 1665, 1085, "up", 243),     \* turning while it pursues
    StepAi(3183, 2335, 571, "left", 172),    \* walking away from the human
    StepAi(2253, 707, 858, "up", 1201),      \* the human at the edge of the cone
    StepAi(807, 2598, 274, "down", 752) }    \* the human 40.4 px ahead

StepPlayers ==
  { InitialPlayer,
    StepHuman(230, 200, "left", 1250),   \* 30 px ahead of an AI at (200,200): in contact
    StepHuman(400, 20, "up", 1000),      \* on the top wall
    StepHuman(780, 580, "right", 1250),  \* in the bottom right corner
    StepHuman(550, 140, "left", 100),    \* in view of the AI at (404,200)
    StepHuman(375, 165, "up", 48),       \* behind the AI at (481.7,166.5)
    StepHuman(355, 245, "left", 760),    \* behind the AI at (318.3,233.5), in contact
    StepHuman(105, 170, "right", 492),   \* 105 degrees off the facing of the AI at (225.3,70.7)
    StepHuman(85, 300, "left", 1100) }   \* 40.4 px ahead of the AI at (80.7,259.8)

StepKeys == { {}, {"w"}, {"w", "d"}, {"w", "s", "a", "d"} }

InitStep ==
  /\ player \in StepPlayers
  /\ aiPlayer \in StepAiPlayers
  /\ aiVision \in {[InitialAiVision EXCEPT !.canSeePlayer = b] : b \in BOOLEAN}
  /\ keysPressed \in StepKeys
  /\ InitRest

NextStep ==
  \/ \E chance \in BOOLEAN, d \in Directions : aiMovementInterval(chance, d)
  \/ \E rnd \in 0 .. RandomSteps - 1 : gameLoop(rnd)
  \/ Render

SpecStep == InitStep /\ [][NextStep]_vars

\* the program when the host runs one callback more before React renders: a
\* timer callback and an animation frame, or two frames, between two renders
InitRace ==
  /\ player = InitialPlayer
  /\ aiPlayer = InitialAiPlayer
  /\ aiVision = InitialAiVision
  /\ keysPressed = {}
  /\ canvas = TheCanvas
  /\ batch = MaxPending + 1
  /\ InitEffects

SpecRace == InitRace /\ [][NextStep]_vars

(***************************************************************************)
(* Properties.  lastAi and lastHuman hold the arguments and the result of  *)
(* the last AI step and the last human step.                               *)
(***************************************************************************)
MoveKeys == {"w", "a", "s", "d"}

InBounds(e) ==
  /\ e.size <= e.x /\ e.x <= CanvasWidth * PosScale - e.size
  /\ e.size <= e.y /\ e.y <= CanvasHeight * PosScale - e.size

\* the bearing from the AI to the target in the last AI step
LastBearing ==
  Atan2(lastAi.player.y - lastAi.aiPlayer.y, lastAi.player.x - lastAi.aiPlayer.x)

\* squared distance from the AI to the target before and after the last AI step
LastDistBefore ==
  Dist2(lastAi.player.x - lastAi.aiPlayer.x, lastAi.player.y - lastAi.aiPlayer.y)
LastDistAfter ==
  Dist2(lastAi.player.x - lastAi.updatedAiPlayer.x,
        lastAi.player.y - lastAi.updatedAiPlayer.y)

\* the last AI step saw the target outside contact range (the pursuit branch)
LastPursuit ==
  /\ lastAi.valid
  /\ lastAi.updatedAiVision.canSeePlayer
  /\ ~InContactRange(lastAi.aiPlayer, lastAi.player)

\* the facing of the last AI step after its turn towards the target
LastTurned == TurnTowards(lastAi.aiPlayer.rotation, LastBearing, DefaultRotationSpeed)

\* the last AI step ended on the position it advanced to: no clamp, no veto
LastAdvanced ==
  /\ lastAi.updatedAiPlayer.x = AdvanceX(lastAi.aiPlayer.x, LastTurned, lastAi.aiPlayer.speed)
  /\ lastAi.updatedAiPlayer.y = AdvanceY(lastAi.aiPlayer.y, LastTurned, lastAi.aiPlayer.speed)

\* the angle between two directions, in 0 .. Pi
AngularDistance(a, b) == Min((a - b) % TwoPi, TwoPi - ((a - b) % TwoPi))

\* 80 degrees in angle units
EightyDegrees == (80 * TwoPi) \div 360

\* C1: with the 800x600 canvas every entity stays inside the bounds: after any
\* sequence of ticks, interval firings and renders, size <= x <= width - size
\* and size <= y <= height - size for the human and the AI, and for the result
\* of every updatePlayer and updateAiPlayer call.
C1_ClampInvariant ==
  /\ InBounds(player)
  /\ InBounds(aiPlayer)
  /\ lastHuman.valid => InBounds(lastHuman.updated)
  /\ lastAi.valid => InBounds(lastAi.updatedAiPlayer)

\* C1 witness: an AI step whose advance left the canvas and a human step whose
\* move left the canvas have both been clamped.
C1_Witness ==
  /\ lastAi.valid
  /\ WouldHitWall(AdvanceX(lastAi.aiPlayer.x, lastAi.aiPlayer.rotation, lastAi.aiPlayer.speed),
                  AdvanceY(lastAi.aiPlayer.y, lastAi.aiPlayer.rotation, lastAi.aiPlayer.speed),
                  lastAi.aiPlayer.size, TheCanvas)
  /\ ~lastAi.updatedAiVision.canSeePlayer
  /\ lastHuman.valid
  /\ ~InBounds([lastHuman.player EXCEPT
                  !.x = PlayerMoveX(lastHuman.player, lastHuman.keysPressed),
                  !.y = PlayerMoveY(lastHuman.player, lastHuman.keysPressed)])
  /\ InBounds(lastHuman.updated)
  /\ InBounds(lastAi.updatedAiPlayer)

\* C2 as claimed: an AI step that sees the target outside contact range ends
\* strictly closer to the target than it began.
C2_PursuitGetsCloser == LastPursuit => LastDistAfter < LastDistBefore

\* C2 amended: an AI step that sees the target outside contact range ends
\* strictly closer to the target provided its facing after the turn is within
\* 80 degrees of the bearing to the target and the step ends on the advanced
\* position (no wall clamp, no collision veto).
C2_PursuitGetsCloserWhenFacing ==
  (/\ LastPursuit
   /\ AngularDistance(LastBearing, LastTurned) <= EightyDegrees
   /\ LastAdvanced)
  => LastDistAfter < LastDistBefore

\* C2 witness: a pursuit step, facing within 80 degrees of the target, that
\* advanced and got closer.
C2_Witness ==
  /\ LastPursuit
  /\ AngularDistance(LastBearing, LastTurned) <= EightyDegrees
  /\ LastAdvanced
  /\ LastDistAfter < LastDistBefore
  /\ lastAi.updatedAiPlayer.x # lastAi.aiPlayer.x

\* C3 as claimed: an AI step with the target within contact range leaves x and
\* y unchanged and sets the rotation to the bearing atan2(dy, dx).
C3_ContactTracks ==
  (lastAi.valid /\ InContactRange(lastAi.aiPlayer, lastAi.player))
  => /\ lastAi.updatedAiPlayer.x = lastAi.aiPlayer.x
     /\ lastAi.updatedAiPlayer.y = lastAi.aiPlayer.y
     /\ lastAi.updatedAiPlayer.rotation = LastBearing

\* C3 amended: an AI step that sees the target within contact range leaves x
\* and y unchanged and sets the rotation to exactly the bearing atan2(dy, dx):
\* no wall reflection and no random reorientation is applied to it.
C3_VisibleContactTracks ==
  (/\ lastAi.valid
   /\ lastAi.updatedAiVision.canSeePlayer
   /\ InContactRange(lastAi.aiPlayer, lastAi.player))
  => /\ lastAi.updatedAiPlayer.x = lastAi.aiPlayer.x
     /\ lastAi.updatedAiPlayer.y = lastAi.aiPlayer.y
     /\ lastAi.updatedAiPlayer.rotation = LastBearing

\* C3 witness: an AI step that saw the target within contact range while facing
\* elsewhere, and now faces it.
C3_Witness ==
  /\ lastAi.valid
  /\ lastAi.updatedAiVision.canSeePlayer
  /\ InContactRange(lastAi.aiPlayer, lastAi.player)
  /\ lastAi.aiPlayer.rotation # LastBearing
  /\ lastAi.updatedAiPlayer.rotation = LastBearing

\* C4 as claimed: canSeePlayer is true exactly when the target is within
\* visionDistance and the angle between the bearing and the facing, taken in
\* 0..180 degrees, is at most half the cone angle.
C4_VisionIsConeTest ==
  lastAi.valid =>
    (lastAi.updatedAiVision.canSeePlayer
       <=> /\ ~TooFar(lastAi.aiPlayer, lastAi.player, lastAi.aiVision)
           /\ AngularDistance(LastBearing, lastAi.aiPlayer.rotation)
                <= HalfCone(lastAi.aiVision))

\* C5 as claimed: an AI whose direction is 'none' does not see the target.
C5_IdleAiCannotSee ==
  (lastAi.valid /\ lastAi.aiPlayer.direction = "none")
  => ~lastAi.updatedAiVision.canSeePlayer

\* C6 as claimed: a human step with only 'w' held returns y - speed, direction
\* 'up' and the same x.
C6_OnlyW ==
  (lastHuman.valid /\ lastHuman.keysPressed \cap MoveKeys = {"w"})
  => /\ lastHuman.updated.y = lastHuman.player.y - lastHuman.player.speed
     /\ lastHuman.updated.direction = "up"
     /\ lastHuman.updated.x = lastHuman.player.x

\* C6 amended: a human step with only 'w' held returns y - speed, or size when
\* y - speed would be above the top wall (the clamp), direction 'up' and the
\* same x.
C6_OnlyWClamped ==
  (lastHuman.valid /\ lastHuman.keysPressed \cap MoveKeys = {"w"})
  => /\ lastHuman.updated.y
          = Max(lastHuman.player.size, lastHuman.player.y - lastHuman.player.speed)
     /\ lastHuman.updated.direction = "up"
     /\ lastHuman.updated.x = lastHuman.player.x

\* C6 witness: a human step with only 'w' held that moved up by speed from a
\* state that had another direction.
C6_Witness ==
  /\ lastHuman.valid
  /\ lastHuman.keysPressed \cap MoveKeys = {"w"}
  /\ lastHuman.player.direction # "up"
  /\ lastHuman.updated.y = lastHuman.player.y - lastHuman.player.speed

\* C7 as claimed: a human step with 'w' and 'd' held returns direction 'right',
\* y - speed and x + speed.
C7_WAndD ==
  (lastHuman.valid /\ lastHuman.keysPressed \cap MoveKeys = {"w", "d"})
  => /\ lastHuman.updated.direction = "right"
     /\ lastHuman.updated.y = lastHuman.player.y - lastHuman.player.speed
     /\ lastHuman.updated.x = lastHuman.player.x + lastHuman.player.speed

\* C7 amended: a human step with 'w' and 'd' held (and 'a' not held) returns
\* direction 'right', and moves on both axes up to the clamp: y becomes max(size, y - speed) and
\* x becomes min(width - size, x + speed).
C7_WAndDClamped ==
  (/\ lastHuman.valid
   /\ {"w", "d"} \subseteq lastHuman.keysPressed
   /\ "a" \notin lastHuman.keysPressed)
  => /\ lastHuman.updated.direction = "right"
     /\ lastHuman.updated.y
          = Max(lastHuman.player.size, lastHuman.player.y - lastHuman.player.speed)
     /\ lastHuman.updated.x
          = Min(CanvasWidth * PosScale - lastHuman.player.size,
                lastHuman.player.x + lastHuman.player.speed)

\* C7 witness: a human step with 'w' and 'd' held that moved on both axes.
C7_Witness ==
  /\ lastHuman.valid
  /\ lastHuman.keysPressed \cap MoveKeys = {"w", "d"}
  /\ lastHuman.updated.direction = "right"
  /\ lastHuman.updated.y = lastHuman.player.y - lastHuman.player.speed
  /\ lastHuman.updated.x = lastHuman.player.x + lastHuman.player.speed

\* C8: a human step with none of w/a/s/d held leaves direction, x and y as
\* they were, and once the human's direction is not 'none' no step of the
\* program returns it to 'none'.
C8_DirectionPersists ==
  [][/\ (lastHuman'.valid /\ lastHuman'.keysPressed \cap MoveKeys = {})
          => /\ lastHuman'.updated.direction = lastHuman'.player.direction
             /\ lastHuman'.updated.x = lastHuman'.player.x
             /\ lastHuman'.updated.y = lastHuman'.player.y
     /\ player.direction # "none" => player'.direction # "none"]_vars

\* C8 witness: the human has a direction and its last step, with no movement
\* key held, started from that direction.
C8_Witness ==
  /\ lastHuman.valid
  /\ lastHuman.keysPressed \cap MoveKeys = {}
  /\ lastHuman.player.direction # "none"
  /\ player.direction = lastHuman.player.direction
  /\ keysPressed = {}

\* C9: the pulse of both entities is in [0, 2 PI) after every step, and every
\* step advances it (by 0.1 for the human, by 0.08 for the AI, also in the
\* AI's contact-range return), wrapping at 2 PI.
C9_PulseRange ==
  /\ 0 <= player.pulse /\ player.pulse < TwoPi
  /\ 0 <= aiPlayer.pulse /\ aiPlayer.pulse < TwoPi
  /\ lastHuman.valid =>
       /\ 0 <= lastHuman.updated.pulse /\ lastHuman.updated.pulse < TwoPi
       /\ (lastHuman.updated.pulse - lastHuman.player.pulse) % TwoPi = PlayerPulseStep
  /\ lastAi.valid =>
       /\ 0 <= lastAi.updatedAiPlayer.pulse /\ lastAi.updatedAiPlayer.pulse < TwoPi
       /\ (lastAi.updatedAiPlayer.pulse - lastAi.aiPlayer.pulse) % TwoPi = AiPulseStep

\* C9 witness: an AI step that took the contact-range return and a human step
\* without movement have both wrapped their pulse around 2 PI.
C9_Witness ==
  /\ lastAi.valid
  /\ lastAi.updatedAiVision.canSeePlayer
  /\ InContactRange(lastAi.aiPlayer, lastAi.player)
  /\ lastAi.updatedAiPlayer.pulse < lastAi.aiPlayer.pulse
  /\ lastHuman.valid
  /\ lastHuman.updated.x = lastHuman.player.x
  /\ lastHuman.updated.y = lastHuman.player.y
  /\ lastHuman.updated.pulse < lastHuman.player.pulse

\* C10 as claimed: the human entity that a tick hands to the AI step is the
\* human entity produced by the human step of the same tick.
C10_AiGetsNewHuman ==
  lastHuman.valid =>
    /\ lastHuman.aiTarget.x = lastHuman.updated.x
    /\ lastHuman.aiTarget.y = lastHuman.updated.y

\* C11 as claimed: the render call at the end of a tick draws the result of that
\* tick: the AI entity and the vision state its AI step returned and, once the
\* tick's human step has run, the human entity it returned.
C11_RenderDrawsTickResult ==
  (lastAi.valid /\ drawn.valid)
  => /\ drawn.aiPlayer = lastAi.updatedAiPlayer
     /\ drawn.aiVision = lastAi.updatedAiVision
     /\ (qPlayer = << >> /\ lastHuman.valid) => drawn.player = lastHuman.updated

\* call a ran before call b in the last tick
RanBefore(a, b) ==
  \E i, j \in 1 .. Len(order) : i < j /\ order[i] = a /\ order[j] = b

\* C12 as claimed: in every tick the human step (updatePlayer) runs before the
\* AI step (updateAiPlayer), the AI step before the render, and the next tick
\* is requested after the render; and at most one tick is pending at any time.
C12_TickSequencing ==
  /\ frames <= 1
  /\ ticks > 0 =>
       /\ RanBefore("updatePlayer", "updateAiPlayer")
       /\ RanBefore("updateAiPlayer", "renderGame")
       /\ RanBefore("renderGame", "requestAnimationFrame")

\* C13: once the component is unmounted no key handler, no interval and no
\* animation frame is registered, and nothing but the count of delivered key
\* events changes any more: no tick runs, no timer callback changes the AI, and
\* key events leave the key state as it is.
C13_TeardownStopsEverything ==
  [][~mounted =>
       /\ listeners = {} /\ ~interval /\ frames = 0
       /\ UNCHANGED << player, aiPlayer, aiVision, keysPressed, canvas, qPlayer, qAi,
                       qVision, qKeys, frames, drawn, ticks, lastAi, lastHuman,
                       order, listeners, interval, mounted >>]_vars

\* C13 witness: after a tick and a teardown a key event has arrived, the key
\* state is as the last render left it and the tick count has not moved.
C13_Witness ==
  /\ ~mounted
  /\ ticks > 0
  /\ ticks < MaxTicks
  /\ keyEvents > 0
  /\ qKeys = << >>
  /\ keysPressed = {}

\* C14 as claimed: a tick that finds no canvas, or no 2D context, is dropped:
\* it draws nothing and leaves the position of the human and of the AI as it
\* was.
C14_MissingCanvasDropsFrame ==
  ~(canvas.present /\ canvas.context)
  => /\ ~drawn.valid
     /\ lastAi.valid =>
          /\ lastAi.updatedAiPlayer.x = lastAi.aiPlayer.x
          /\ lastAi.updatedAiPlayer.y = lastAi.aiPlayer.y
     /\ lastHuman.valid =>
          /\ lastHuman.updated.x = lastHuman.player.x
          /\ lastHuman.updated.y = lastHuman.player.y

\* the last AI step up to and including its wall logic
LastWalled == lastAi.walled

\* the collision resolver returned another position than the one proposed to it
LastDeflected ==
  \/ lastAi.updatedAiPlayer.x # LastWalled.x
  \/ lastAi.updatedAiPlayer.y # LastWalled.y

\* the last AI step took the contact-range return
LastContact ==
  /\ lastAi.updatedAiVision.canSeePlayer
  /\ InContactRange(lastAi.aiPlayer, lastAi.player)

\* C15: an AI step that does not see the target, whose proposed position is in
\* bounds and is not deflected by the collision resolver, keeps rotation and
\* direction and moves by speed * cos(rotation), speed * sin(rotation).
C15_StraightPatrol ==
  (/\ lastAi.valid
   /\ ~lastAi.updatedAiVision.canSeePlayer
   /\ ~LastWalled.wouldHitWall
   /\ ~LastDeflected)
  => /\ lastAi.updatedAiPlayer.rotation = lastAi.aiPlayer.rotation
     /\ lastAi.updatedAiPlayer.direction = lastAi.aiPlayer.direction
     /\ lastAi.updatedAiPlayer.x
          = lastAi.aiPlayer.x
            + RoundDiv(Cos(lastAi.aiPlayer.rotation) * lastAi.aiPlayer.speed, TrigScale)
     /\ lastAi.updatedAiPlayer.y
          = lastAi.aiPlayer.y
            + RoundDiv(Sin(lastAi.aiPlayer.rotation) * lastAi.aiPlayer.speed, TrigScale)

\* C15 witness: a patrol step along a rotation that is on neither axis has
\* moved the AI on both axes and kept a direction the rotation does not give.
C15_Witness ==
  /\ lastAi.valid
  /\ ~lastAi.updatedAiVision.canSeePlayer
  /\ ~LastWalled.wouldHitWall
  /\ ~LastDeflected
  /\ lastAi.updatedAiPlayer.x # lastAi.aiPlayer.x
  /\ lastAi.updatedAiPlayer.y # lastAi.aiPlayer.y
  /\ lastAi.updatedAiPlayer.direction # DirectionOfRotation(lastAi.aiPlayer.rotation)

\* the position the last AI step proposed is out of bounds on some axis
LastOutOfBounds ==
  \/ LastWalled.proposedX < lastAi.aiPlayer.size
  \/ LastWalled.proposedX > CanvasWidth * PosScale - lastAi.aiPlayer.size
  \/ LastWalled.proposedY < lastAi.aiPlayer.size
  \/ LastWalled.proposedY > CanvasHeight * PosScale - lastAi.aiPlayer.size

\* C16: in an AI step that does not take the contact-range return, the wall
\* logic turns the facing by 180 degrees (rotation + PI modulo 2 PI) exactly
\* when the proposed position is out of bounds on some axis and otherwise
\* leaves it as it is; the position it passes on is clamped into the bounds;
\* and its facing is the facing the step returns unless the collision resolver
\* deflects the step.
C16_WallReflection ==
  (lastAi.valid /\ ~LastContact)
  => /\ LastOutOfBounds <=> /\ LastWalled.rotation = (LastWalled.turned + Pi) % TwoPi
                            /\ LastWalled.rotation # LastWalled.turned
     /\ ~LastOutOfBounds => LastWalled.rotation = LastWalled.turned
     /\ InBounds([lastAi.aiPlayer EXCEPT !.x = LastWalled.x, !.y = LastWalled.y])
     /\ ~LastDeflected => lastAi.updatedAiPlayer.rotation = LastWalled.rotation

\* C16 witness: an AI step proposed a position above the top bound, was clamped
\* on that axis and returned its facing turned by 180 degrees.
C16_Witness ==
  /\ lastAi.valid
  /\ ~LastContact
  /\ LastWalled.proposedY < lastAi.aiPlayer.size
  /\ lastAi.updatedAiPlayer.y = lastAi.aiPlayer.size
  /\ lastAi.updatedAiPlayer.rotation = (LastWalled.turned + Pi) % TwoPi
  /\ lastAi.updatedAiPlayer.rotation < LastWalled.turned

\* the angle the last AI step added to its facing after the wall logic, in
\* 0 .. 2 PI
LastOffset == (lastAi.updatedAiPlayer.rotation - LastWalled.rotation) % TwoPi

\* C17: in an AI step that does not take the contact-range return, the facing
\* is changed after the wall logic exactly when the position the collision
\* resolver returns differs from the proposed (clamped) position; the angle
\* added is then between 90 and 270 degrees and the returned rotation is below
\* 2 PI; otherwise the facing is the one the wall logic left.
C17_ObstacleReorientation ==
  (lastAi.valid /\ ~LastContact)
  => /\ LastDeflected <=> lastAi.updatedAiPlayer.rotation # LastWalled.rotation
     /\ LastDeflected =>
          /\ Pi \div 2 <= LastOffset /\ LastOffset <= (3 * Pi) \div 2
          /\ lastAi.updatedAiPlayer.rotation < TwoPi
          /\ lastAi.updatedAiPlayer.direction
               = DirectionOfRotation(lastAi.updatedAiPlayer.rotation)
     /\ ~LastDeflected =>
          /\ lastAi.updatedAiPlayer.rotation = LastWalled.rotation
          /\ lastAi.updatedAiPlayer.direction = LastWalled.direction

\* C17 witness: the resolver sent the AI back to where it was, and the step
\* returned a facing more than 180 degrees away from the one it had after the
\* wall logic, folded below 2 PI.
C17_Witness ==
  /\ lastAi.valid
  /\ ~LastContact
  /\ LastDeflected
  /\ lastAi.updatedAiPlayer.x = lastAi.aiPlayer.x
  /\ lastAi.updatedAiPlayer.y = lastAi.aiPlayer.y
  /\ LastOffset > Pi
  /\ lastAi.updatedAiPlayer.rotation < LastWalled.rotation

\* the angle between the bearing to the target and the facing, before and after
\* the turn of the last AI step, and the angle the turn changed the facing by
LastOffBefore == AngularDistance(LastBearing, lastAi.aiPlayer.rotation)
LastOffAfter == AngularDistance(LastBearing, LastWalled.turned)
LastTurn == AngularDistance(LastWalled.turned, lastAi.aiPlayer.rotation)

\* C18 as claimed: the turn of a pursuit step changes the facing by at most
\* rotationSpeed, never away from the bearing, and sets the facing to the
\* bearing once the difference is within the snap threshold.
C18_BoundedTurn ==
  LastPursuit
  => /\ LastTurn <= DefaultRotationSpeed
     /\ LastOffAfter <= LastOffBefore
     /\ LastOffBefore <= SnapThreshold => LastOffAfter = 0

\* C18 amended: when the facing is more than the snap threshold (0.1 rad) off
\* the bearing, the turn of a pursuit step changes it by exactly rotationSpeed
\* (0.05 rad) towards the bearing; otherwise the turn sets it to the bearing, a
\* change of up to the snap threshold.  The facing after the turn is in
\* [0, 2 PI), and it is the facing the step returns unless the wall logic or
\* the collision resolver changes it.
C18_TurnOrSnap ==
  LastPursuit
  => /\ LastOffBefore > SnapThreshold =>
          /\ LastTurn = DefaultRotationSpeed
          /\ LastOffAfter = LastOffBefore - DefaultRotationSpeed
     /\ LastOffBefore <= SnapThreshold =>
          /\ LastOffAfter = 0
          /\ LastTurn = LastOffBefore
     /\ 0 <= LastWalled.turned /\ LastWalled.turned < TwoPi
     /\ (~LastWalled.wouldHitWall /\ ~LastDeflected)
          => lastAi.updatedAiPlayer.rotation = LastWalled.turned

\* C18 witness: a pursuit step whose facing was within the snap threshold of
\* the bearing, but more than rotationSpeed off it, now faces the target.
C18_Witness ==
  /\ LastPursuit
  /\ LastOffBefore <= SnapThreshold
  /\ LastOffBefore > DefaultRotationSpeed
  /\ LastOffAfter = 0
  /\ lastAi.updatedAiPlayer.rotation = LastBearing % TwoPi

\* C19: an AI step run again with the other prior value of canSeePlayer, all
\* else equal, returns the same entity and the same vision state; the branch
\* the step takes is the one of the canSeePlayer it returns (a step that returns
\* "not seen" keeps its rotation up to the wall logic, a step that returns "seen"
\* outside contact range turns towards the target, one in contact range faces
\* it); visionConeAngle and visionDistance come back as given.
C19_VisionIsFresh ==
  lastAi.valid
  => /\ lastAi.flipped.updatedAiPlayer = lastAi.updatedAiPlayer
     /\ lastAi.flipped.updatedAiVision = lastAi.updatedAiVision
     /\ lastAi.updatedAiVision.visionConeAngle = lastAi.aiVision.visionConeAngle
     /\ lastAi.updatedAiVision.visionDistance = lastAi.aiVision.visionDistance
     /\ ~lastAi.updatedAiVision.canSeePlayer
          => LastWalled.turned = lastAi.aiPlayer.rotation
     /\ LastPursuit => LastWalled.turned = LastTurned
     /\ LastContact => lastAi.updatedAiPlayer.rotation = LastBearing

\* C19 witness: an AI step that was given canSeePlayer = true returned false
\* and patrolled on along its rotation.
C19_Witness ==
  /\ lastAi.valid
  /\ lastAi.aiVision.canSeePlayer
  /\ ~lastAi.updatedAiVision.canSeePlayer
  /\ lastAi.updatedAiPlayer.rotation = lastAi.aiPlayer.rotation
  /\ lastAi.updatedAiPlayer.x
       = lastAi.aiPlayer.x
         + RoundDiv(Cos(lastAi.aiPlayer.rotation) * lastAi.aiPlayer.speed, TrigScale)
  /\ lastAi.updatedAiPlayer.x # lastAi.aiPlayer.x

\* the direction of travel of a displacement (dx, dy): its larger component;
\* y grows downwards
TravelDirection(dx, dy) ==
  IF Abs(dx) >= Abs(dy)
  THEN IF dx > 0 THEN "right" ELSE "left"
  ELSE IF dy > 0 THEN "down" ELSE "up"

\* C20 as claimed: a patrol step (target not seen, no wall, no deflection) of an
\* AI that carries the direction the patrol timer picked travels in that
\* direction.
C20_PatrolFollowsPick ==
  (/\ lastPick.followed
   /\ lastAi.valid
   /\ ~lastAi.updatedAiVision.canSeePlayer
   /\ ~LastWalled.wouldHitWall
   /\ ~LastDeflected)
  => TravelDirection(lastAi.updatedAiPlayer.x - lastAi.aiPlayer.x,
                     lastAi.updatedAiPlayer.y - lastAi.aiPlayer.y)
       = lastPick.direction

\* C21 as claimed: an AI step that starts with its rotation in [0, 2 PI)
\* returns a rotation in [0, 2 PI).
C21_RotationInRange ==
  (/\ lastAi.valid
   /\ 0 <= lastAi.aiPlayer.rotation
   /\ lastAi.aiPlayer.rotation < TwoPi)
  => /\ 0 <= lastAi.updatedAiPlayer.rotation
     /\ lastAi.updatedAiPlayer.rotation < TwoPi

\* the last AI step set the facing: it tracked the target in contact range,
\* turned towards it, was reflected by a wall or was reoriented after a
\* deflection
LastSetsFacing ==
  /\ lastAi.valid
  /\ \/ lastAi.updatedAiVision.canSeePlayer
     \/ LastWalled.wouldHitWall
     \/ LastDeflected

\* the angle of a cardinal direction; y grows downwards
CardinalAngle(d) ==
  IF d = "right" THEN 0
  ELSE IF d = "down" THEN Pi \div 2
  ELSE IF d = "left" THEN Pi
  ELSE (3 * Pi) \div 2

\* the cardinal directions nearest to the angle r (two of them on a diagonal)
NearestCardinals(r) ==
  { d \in Directions :
      \A e \in Directions :
        AngularDistance(r, CardinalAngle(d)) <= AngularDistance(r, CardinalAngle(e)) }

\* C22 as claimed: after an AI step that sets the facing, the direction
\* reported is a cardinal direction nearest to the rotation returned.
C22_DirectionAgreesWithRotation ==
  LastSetsFacing
  => lastAi.updatedAiPlayer.direction \in NearestCardinals(lastAi.updatedAiPlayer.rotation)

\* C23 as claimed: a tick whose setAiPlayer is the newest queued update worked
\* from the AI entity with every update queued before it applied.
C23_NoLostAiUpdate ==
  (/\ qAi # << >>
   /\ qAi[Len(qAi)].set)
  => lastAi.aiPlayer = ApplyAi(aiPlayer, SubSeq(qAi, 1, Len(qAi) - 1))
====
